---------------------------- MODULE Spec2Model ----------------------------
(***************************************************************************)
(* A model of tilo's command argument parser (package argparse, the copy   *)
(* in src/server/server.go lines 254-523) and of its temporal query        *)
(* language (src/msg/msg.go).                                              *)
(*                                                                         *)
(* Strings are TLA+ strings; TLC evaluates Len, SubSeq and \o on them, so  *)
(* the Go string functions are modelled character by character.            *)
(***************************************************************************)
EXTENDS Integers, Sequences, FiniteSets, TLC

VARIABLES
    (* ---- Parser.Parse (server.go:350-405) ---- *)
    taskHandler,   \* Parser.taskHandler: "nil", "none", "single" or "multi"
    argHandler,    \* Parser.argHandler: "nil", "noArg" or "param"
    params,        \* paramHandler.params: flag name -> Param
    args,          \* the argument list given to Parse
    pc,            \* position inside Parse
    cmd,           \* the msg.Cmd under construction
    restArgs,      \* what handleTasks returned, the input of HandleArgs
    i,             \* HandleArgs: the loop cursor (1-based)
    quant,         \* HandleArgs: the local slice quant
    unused,        \* HandleArgs: the local slice unused
    calls,         \* every Quantifier.Parse invocation so far: <<name, argument>>
    err,           \* the error Parse returns ("nil" for none)
    warned,        \* the list handed to WarnUnused
    (* ---- getQueryParams (msg.go:157-197) ---- *)
    now,           \* the instant handed to the query functions (a day number)
    qargs,         \* getQueryParams: args
    qi,            \* getQueryParams: the loop cursor i (1-based)
    details,       \* getQueryParams: the slice details
    qerr,          \* the error getQueryParams returns ("nil" for none)
    qpc,           \* position inside getQueryParams
    (* ---- direct calls of the date functions (msg.go:372-405) ---- *)
    called,        \* the last call made: <<function or flag, n>>
    res,           \* the QueryParam it returned
    (* ---- building a Param registry (server.go:505-515, parse.go:50-127) ---- *)
    builder,       \* "HandlerForParams" or "newQueryArgHandler"
    paramList,     \* the Params to register, in order
    pmap,          \* the map under construction: [isNil, entries]
    ri,            \* the position of the range loop (1-based)
    rpc,           \* "loop", "returned", "panic" or "idle"
    (* ---- Client.ensureServerIsRunning (client.go:101-142) ---- *)
    conn,          \* c.conn: "nil" or "set"
    socket,        \* whether the server's socket file exists (server.IsRunning)
    notifyChan,    \* "nil" (not made), "open" or "closed"
    cpc,           \* position of ensureServerIsRunning
    gpc,           \* position of the polling goroutine
    polls,         \* how often the goroutine has polled
    cerr,          \* the error ensureServerIsRunning returns ("nil" for none)
    (* ---- server main loop (server.go:31-43, 138-179) ---- *)
    spc,           \* position of Run / server.main
    wpc,           \* position of the goroutine waitForConnection
    connectChan,   \* "nil" (not made), "open" or "closed"
    signalChan,    \* number of signals in the buffered channel (0 or 1)
    shutdownChan,  \* "open", "requested" (a request is waiting) or "closed"
    listener,      \* "open" or "closed"
    backlog,       \* clients that have connected and are not yet accepted
    accepted       \* connections Accept has returned so far

parserVars == <<taskHandler, argHandler, params, args, pc, cmd, restArgs, i,
                quant, unused, calls, err, warned>>

queryVars == <<qargs, qi, details, qerr, qpc>>

dateVars == <<called, res>>

registryVars == <<builder, paramList, pmap, ri, rpc>>

clientVars == <<conn, socket, notifyChan, cpc, gpc, polls, cerr>>

serverVars == <<spc, wpc, connectChan, signalChan, shutdownChan, listener,
                backlog, accepted>>

vars == <<parserVars, now, queryVars, dateVars, registryVars, clientVars,
          serverVars>>

-----------------------------------------------------------------------------
(* Bounds of the model. *)

\* The longest argument list given to Parser.Parse.
MaxArgs == 3

\* The longest argument list given to getQueryParams.
MaxQueryArgs == 2

\* The most comma-separated fragments in a modifier list.
MaxFragments == 4

\* The instants "now" of the direct calls of the date functions: every day
\* of NumYears years from the first of January of FirstYear.
FirstYear == 2020

NumYears == 4

\* The largest offset n handed to daysAgo, weeksAgo, monthsAgo and yearsAgo.
MaxAgo == 14

\* Longest list of Params handed to a registry builder.
MaxParams == 3

\* How often the goroutine of ensureServerIsRunning polls at most.
MaxPolls == 10

\* How many clients connect to the server at most.
MaxConns == 3

-----------------------------------------------------------------------------
(* Go's package strings. *)

\* s[i] of Go, as a one-character string (1-based here).
Char(s, k) == SubSeq(s, k, k)

\* The part of s from position k on.
From(s, k) == SubSeq(s, k, Len(s))

HasPrefix(s, prefix) ==
    /\ Len(s) >= Len(prefix)
    /\ SubSeq(s, 1, Len(prefix)) = prefix

\* strings.Contains for a one-character substring.
Contains(s, c) == \E k \in 1..Len(s) : Char(s, k) = c

\* strings.ContainsAny: some character of s is one of chars.
ContainsAny(s, chars) == \E k \in 1..Len(s) : Char(s, k) \in chars

\* Position of the first c in s, 0 when there is none.
IndexOf(s, c) ==
    IF Contains(s, c)
    THEN CHOOSE k \in 1..Len(s) :
            /\ Char(s, k) = c
            /\ \A j \in 1..(k - 1) : Char(s, j) # c
    ELSE 0

\* strings.Split for a one-character separator: always at least one field.
RECURSIVE Split(_, _)
Split(s, sep) ==
    LET k == IndexOf(s, sep)
    IN  IF k = 0
        THEN <<s>>
        ELSE <<SubSeq(s, 1, k - 1)>> \o Split(From(s, k + 1), sep)

\* strings.TrimLeft: drop every leading character that is in cutset.
RECURSIVE TrimLeft(_, _)
TrimLeft(s, cutset) ==
    IF Len(s) > 0 /\ Char(s, 1) \in cutset
    THEN TrimLeft(From(s, 2), cutset)
    ELSE s

-----------------------------------------------------------------------------
(* Go's package time: a time.Time is modelled by its calendar day, counted *)
(* in days since 0001-01-01 (day 0).  AddDate keeps the time of day and    *)
(* the location, and the code compares and formats days only.              *)

Digits == {"0", "1", "2", "3", "4", "5", "6", "7", "8", "9"}

DigitVal(c) ==
    CASE c = "0" -> 0 [] c = "1" -> 1 [] c = "2" -> 2 [] c = "3" -> 3
      [] c = "4" -> 4 [] c = "5" -> 5 [] c = "6" -> 6 [] c = "7" -> 7
      [] c = "8" -> 8 [] c = "9" -> 9

DigitChar(d) ==
    CASE d = 0 -> "0" [] d = 1 -> "1" [] d = 2 -> "2" [] d = 3 -> "3"
      [] d = 4 -> "4" [] d = 5 -> "5" [] d = 6 -> "6" [] d = 7 -> "7"
      [] d = 8 -> "8" [] d = 9 -> "9"

AllDigits(s) == \A k \in 1..Len(s) : Char(s, k) \in Digits

\* The value of a string of decimal digits.
RECURSIVE DigitsVal(_)
DigitsVal(s) ==
    IF Len(s) = 0
    THEN 0
    ELSE 10 * DigitsVal(SubSeq(s, 1, Len(s) - 1)) + DigitVal(Char(s, Len(s)))

\* The decimal digits of a natural number, without padding.
RECURSIVE NatStr(_)
NatStr(v) ==
    IF v < 10 THEN DigitChar(v) ELSE NatStr(v \div 10) \o DigitChar(v % 10)

\* The layout elements "01"/"02" and "2006" of Time.Format: zero padded.
Pad2(v) == IF v < 10 THEN "0" \o NatStr(v) ELSE NatStr(v)

Pad4(v) ==
    IF v < 10 THEN "000" \o NatStr(v)
    ELSE IF v < 100 THEN "00" \o NatStr(v)
    ELSE IF v < 1000 THEN "0" \o NatStr(v)
    ELSE NatStr(v)

isLeap(year) == year % 4 = 0 /\ (year % 100 # 0 \/ year % 400 = 0)

daysIn(month, year) ==
    IF month = 2 THEN (IF isLeap(year) THEN 29 ELSE 28)
    ELSE IF month \in {4, 6, 9, 11} THEN 30
    ELSE 31

\* Days of the year before the first of the month.
RECURSIVE daysBefore(_, _)
daysBefore(month, year) ==
    IF month = 1 THEN 0
    ELSE daysBefore(month - 1, year) + daysIn(month - 1, year)

\* Days from 0001-01-01 to the first of January of the year.
daysSinceEpoch(year) ==
    LET p == year - 1
    IN  365 * p + (p \div 4) - (p \div 100) + (p \div 400)

\* time.Date: month and day may be out of range and are normalised, the
\* month first (carrying into the year), the day by plain day counting.
Date(year, month, day) ==
    LET m0 == month - 1
        y  == year + (m0 \div 12)
        m  == (m0 % 12) + 1
    IN  daysSinceEpoch(y) + daysBefore(m, y) + day - 1

\* Time.Date: the calendar date of a day number, by cycles of 400, 100, 4
\* and 1 years (the last day of a cycle of 100 or of 1 years belongs to the
\* cycle before it).
Cycles(count) == IF count = 4 THEN 3 ELSE count

CivilOfYearDay(y, m, yday) ==
    [year |-> y, month |-> m, day |-> yday - daysBefore(m, y) + 1]

CivilOfYear(y, yday) ==
    CivilOfYearDay(y,
                   CHOOSE mm \in 1..12 :
                       /\ daysBefore(mm, y) <= yday
                       /\ yday < daysBefore(mm, y) + daysIn(mm, y),
                   yday)

CivilIn4(y0, d) ==
    CivilOfYear(y0 + Cycles(d \div 365) + 1, d - 365 * Cycles(d \div 365))

CivilIn100(y0, d) == CivilIn4(y0 + 4 * (d \div 1461), d % 1461)

CivilIn400(y0, d) ==
    CivilIn100(y0 + 100 * Cycles(d \div 36524), d - 36524 * Cycles(d \div 36524))

Civil(t) == CivilIn400(400 * (t \div 146097), t % 146097)

\* Time.AddDate: add to the fields of the date, then normalise.
AddToCivil(c, years, months, days) ==
    Date(c.year + years, c.month + months, c.day + days)

AddDate(t, years, months, days) == AddToCivil(Civil(t), years, months, days)

\* Time.Weekday: Sunday = 0 ... Saturday = 6 (0001-01-01 is a Monday).
Weekday(t) == (t + 1) % 7

\* Time.Format with the layouts "2006-01-02", "2006-01" and "2006".
FormatCivil(c) == Pad4(c.year) \o "-" \o Pad2(c.month) \o "-" \o Pad2(c.day)

FormatDate(t) == FormatCivil(Civil(t))

FormatCivilMonth(c) == Pad4(c.year) \o "-" \o Pad2(c.month)

FormatMonth(t) == FormatCivilMonth(Civil(t))

FormatYear(t) == Pad4(Civil(t).year)

\* Whether time.Parse accepts s under the layout "2006-01-02": four digits,
\* two digits in 1..12, two digits in 1..daysIn, and nothing else.
ParsesAsDate(s) ==
    /\ Len(s) = 10
    /\ Char(s, 5) = "-"
    /\ Char(s, 8) = "-"
    /\ AllDigits(SubSeq(s, 1, 4))
    /\ AllDigits(SubSeq(s, 6, 7))
    /\ AllDigits(SubSeq(s, 9, 10))
    /\ DigitsVal(SubSeq(s, 6, 7)) \in 1..12
    /\ DigitsVal(SubSeq(s, 9, 10)) >= 1
    /\ DigitsVal(SubSeq(s, 9, 10)) <=
           daysIn(DigitsVal(SubSeq(s, 6, 7)), DigitsVal(SubSeq(s, 1, 4)))

\* Whether time.Parse accepts s under the layout "2006-01".
ParsesAsMonth(s) ==
    /\ Len(s) = 7
    /\ Char(s, 5) = "-"
    /\ AllDigits(SubSeq(s, 1, 4))
    /\ AllDigits(SubSeq(s, 6, 7))
    /\ DigitsVal(SubSeq(s, 6, 7)) \in 1..12

-----------------------------------------------------------------------------
(* Package argparse: task selectors (server.go:264-335, 415-446).          *)

ParamIdentifierPrefix == ":"

AllTasks == ParamIdentifierPrefix \o "all"

isParamIdentifier(str) == HasPrefix(str, ParamIdentifierPrefix)

cleanParam(str) == TrimLeft(Split(str, "=")[1], {ParamIdentifierPrefix})

hasWhitespace(str) == ContainsAny(str, {" ", "\t", "\n"})

\* validTaskName without the test for whitespace (line 434).
validTaskNameWithBlanks(name) == ~isParamIdentifier(name)

validTaskName(name) ==
    IF isParamIdentifier(name) THEN FALSE
    ELSE IF hasWhitespace(name) THEN FALSE
    ELSE TRUE

\* GetTaskNames: the names of a comma-separated field, or the error
\* "Invalid task name: ..." for the first fragment that is not valid.
GetTaskNames(taskField) ==
    IF taskField = AllTasks
    THEN [tasks |-> <<AllTasks>>, err |-> "nil"]
    ELSE LET tasks == Split(taskField, ",")
         IN  IF \E k \in 1..Len(tasks) : ~validTaskName(tasks[k])
             THEN [tasks |-> <<>>, err |-> "InvalidTaskName"]
             ELSE [tasks |-> tasks, err |-> "nil"]

\* The handleTasks methods return the remaining arguments and an error, and
\* set cmd.Tasks on success: [rest, err, set, tasks].  The error kinds stand
\* for the messages of the code:
\*   MissingTask      "Require single task but none is given" /
\*                    "Require one or more tasks but none is given"
\*   AmbiguousTask    "Require single task but several are given"
\*   ReservedTaskName "Require single task name but found ':all'"
\*   MixedAllTasks    "When given, ':all' must be the only task"
\*   InvalidTaskName  "Invalid task name: ..."
TaskFailure(a, e) == [rest |-> a, err |-> e, set |-> FALSE, tasks |-> <<>>]

\* A successful return that hands back all the arguments (args, not
\* args[1:], at lines 303 and 330).
TaskSuccessKeepsField(a, t) ==
    [rest |-> a, err |-> "nil", set |-> TRUE, tasks |-> t]

TaskSuccess(a, t) == [rest |-> Tail(a), err |-> "nil", set |-> TRUE, tasks |-> t]

noTaskHandler(a) == [rest |-> a, err |-> "nil", set |-> FALSE, tasks |-> <<>>]

\* singleTaskHandler without the test for the reserved name (line 298).
singleTaskHandlerTakesAll(a) ==
    IF Len(a) = 0 THEN TaskFailure(a, "MissingTask")
    ELSE IF GetTaskNames(a[1]).err # "nil"
         THEN TaskFailure(a, GetTaskNames(a[1]).err)
    ELSE IF Len(GetTaskNames(a[1]).tasks) > 1 THEN TaskFailure(a, "AmbiguousTask")
    ELSE TaskSuccess(a, GetTaskNames(a[1]).tasks)

singleTaskHandler(a) ==
    IF Len(a) = 0 THEN TaskFailure(a, "MissingTask")
    ELSE LET r == GetTaskNames(a[1])
         IN  IF r.err # "nil" THEN TaskFailure(a, r.err)
             ELSE IF Len(r.tasks) = 0 THEN TaskFailure(a, "MissingTask")
             ELSE IF Len(r.tasks) > 1 THEN TaskFailure(a, "AmbiguousTask")
             ELSE IF r.tasks[1] = AllTasks THEN TaskFailure(a, "ReservedTaskName")
             ELSE TaskSuccess(a, r.tasks)

multiTaskHandler(a) ==
    IF Len(a) = 0 THEN TaskFailure(a, "MissingTask")
    ELSE LET r == GetTaskNames(a[1])
         IN  IF r.err # "nil" THEN TaskFailure(a, r.err)
             ELSE IF Len(r.tasks) = 0 THEN TaskFailure(a, "MissingTask")
             ELSE IF /\ Len(r.tasks) > 1
                     /\ \E k \in 1..Len(r.tasks) : r.tasks[k] = AllTasks
                  THEN TaskFailure(a, "MixedAllTasks")
             ELSE TaskSuccess(a, r.tasks)

handleTasks(h, a) ==
    CASE h = "none"   -> noTaskHandler(a)
      [] h = "single" -> singleTaskHandler(a)
      [] h = "multi"  -> multiTaskHandler(a)

-----------------------------------------------------------------------------
(* Package argparse: quantifiers and the Param registry (server.go:448-523) *)

SingleQuantity(t, elems) == <<[Type |-> t, Elems |-> elems]>>

\* Quantifier.Parse for the quantifiers a query command registers.  They live
\* in package argparse/quantifier:
\*   "fixedDay"  takes no argument and yields one day Quantity;
\*   "dates"     parses a comma-separated list of yyyy-mm-dd dates into one
\*               day Quantity per date, or fails with InvalidDate.
RECURSIVE DateQuantities(_)
DateQuantities(fields) ==
    IF Len(fields) = 0 THEN <<>>
    ELSE SingleQuantity("day", <<Head(fields)>>) \o DateQuantities(Tail(fields))

QuantifierParse(q, str) ==
    CASE q = "fixedDay" ->
            [q |-> SingleQuantity("day", <<"today">>), err |-> "nil"]
      [] q = "dates" ->
            LET fields == Split(str, ",")
            IN  IF \A k \in 1..Len(fields) : ParsesAsDate(fields[k])
                THEN [q |-> DateQuantities(fields), err |-> "nil"]
                ELSE [q |-> <<>>, err |-> "InvalidDate"]

Param(name, requiresArg, quantifier) ==
    [Name |-> name, RequiresArg |-> requiresArg, Quantifier |-> quantifier]

\* The values of paramHandler.params the model runs HandleArgs with: the
\* empty map, and a map with one flag of each shape.
EmptyParams == [name \in {} |-> Param(name, FALSE, "fixedDay")]

QueryParams ==
    [name \in {"today", "day"} |->
        IF name = "today" THEN Param(name, FALSE, "fixedDay")
        ELSE Param(name, TRUE, "dates")]

Registries == {EmptyParams, QueryParams}

\* The flag's argument is to be the next token and there is none: the
\* return at line 483 without its error.
noArgumentIgnored(st, k2) == [st EXCEPT !.i = k2, !.returns = TRUE]

\* The flag's argument is to be the next token and there is none (lines
\* 482-484): HandleArgs returns "No argument for parameter ...".
noArgument(st, k2) ==
    [st EXCEPT !.i = k2, !.returns = TRUE, !.err = "MissingArgument"]

\* One iteration of the loop of paramHandler.HandleArgs at cursor k (1-based)
\* over the arguments a: the new values of the cursor and of the local
\* slices, the Quantifier calls made, and, when the iteration returns, the
\* error returned.
HandleArgsIteration(p, a, k, qs, un) ==
    LET arg  == a[k]
        stay == [i |-> k + 1, quant |-> qs, unused |-> un, calls |-> <<>>,
                 returns |-> FALSE, err |-> "nil"]
    IN  IF isParamIdentifier(arg)
        THEN IF cleanParam(arg) \in DOMAIN p
             THEN LET param  == p[cleanParam(arg)]
                      inline == Contains(arg, "=")
                      k2     == IF param.RequiresArg /\ ~inline THEN k + 1 ELSE k
                  IN  IF k2 = Len(a) + 1
                      THEN noArgument(stay, k2)
                      ELSE LET pArg == IF param.RequiresArg
                                       THEN (IF inline THEN Split(arg, "=")[2]
                                             ELSE a[k2])
                                       ELSE ""
                               r    == QuantifierParse(param.Quantifier, pArg)
                               call == <<<<param.Name, pArg>>>>
                           IN  IF r.err # "nil"
                               THEN [stay EXCEPT !.i = k2, !.calls = call,
                                                 !.returns = TRUE, !.err = r.err]
                               ELSE [stay EXCEPT !.i = k2 + 1, !.calls = call,
                                                 !.quant = qs \o r.q]
             ELSE stay
        ELSE [stay EXCEPT !.unused = Append(un, arg)]

\* The values of the variables of a part of the model that is not running.
ParserIdle ==
    /\ taskHandler = "nil"
    /\ argHandler = "nil"
    /\ params = EmptyParams
    /\ args = <<>>
    /\ pc = "idle"
    /\ cmd = [Op |-> "", Tasks |-> <<>>, Quantities |-> <<>>]
    /\ restArgs = <<>>
    /\ i = 0
    /\ quant = <<>>
    /\ unused = <<>>
    /\ calls = <<>>
    /\ err = "nil"
    /\ warned = <<>>

QueryIdle ==
    /\ qargs = <<>>
    /\ qi = 0
    /\ details = <<>>
    /\ qerr = "nil"
    /\ qpc = "idle"

DatesIdle ==
    /\ called = <<"none", 0>>
    /\ res = <<>>

\* A Go map value: nil, or a map with its entries.  Reading a nil map gives
\* no entry; writing to it panics.
NilMap == [isNil |-> TRUE, entries |-> EmptyParams]

RegistryIdle ==
    /\ builder = "none"
    /\ paramList = <<>>
    /\ pmap = NilMap
    /\ ri = 0
    /\ rpc = "idle"

ClientIdle ==
    /\ conn = "nil"
    /\ socket = FALSE
    /\ notifyChan = "nil"
    /\ cpc = "idle"
    /\ gpc = "idle"
    /\ polls = 0
    /\ cerr = "nil"

ServerIdle ==
    /\ spc = "idle"
    /\ wpc = "idle"
    /\ connectChan = "nil"
    /\ signalChan = 0
    /\ shutdownChan = "open"
    /\ listener = "closed"
    /\ backlog = 0
    /\ accepted = 0

-----------------------------------------------------------------------------
(* Parser.Parse (server.go:386-405), one action per stage.                 *)

SeqsUpTo(S, n) == UNION {[1..k -> S] : k \in 0..n}

\* The tokens the argument lists are made of.  The first token may also be a
\* task field.
TaskTokens ==
    {"a", "a,b", "a,b,c", "a,a", "a b", "a,b\tc", "", "a,,b", AllTasks,
     AllTasks \o ",x", "x," \o AllTasks}

ArgTokens ==
    {":today", ":day", ":day=2020-02-29", ":day=2021-02-29",
     ":day=2020-02-29=x", "2020-02-29", ":bogus", "x"}

ArgLists ==
    {<<>>} \cup
    {<<first>> \o rest : first \in TaskTokens \cup ArgTokens,
                         rest \in SeqsUpTo(ArgTokens, MaxArgs - 1)}

ParserInit ==
    /\ taskHandler \in {"nil", "none", "single", "multi"}
    /\ argHandler \in {"nil", "noArg", "param"}
    /\ params \in Registries
    /\ args \in ArgLists
    /\ pc = "Parse"
    /\ cmd = [Op |-> "", Tasks |-> <<>>, Quantities |-> <<>>]
    /\ restArgs = <<>>
    /\ i = 0
    /\ quant = <<>>
    /\ unused = <<>>
    /\ calls = <<>>
    /\ err = "nil"
    /\ warned = <<>>
    /\ now = 0
    /\ QueryIdle
    /\ DatesIdle
    /\ RegistryIdle
    /\ ClientIdle
    /\ ServerIdle

\* The task stage of Parse without the return at lines 392-394: an error of
\* the task selector is kept and the argument stage runs all the same.
ParseTasksGoesOn ==
    /\ pc = "Parse"
    /\ IF taskHandler = "nil"
       THEN /\ pc' = "panic"
            /\ cmd' = [cmd EXCEPT !.Op = "query"]
            /\ UNCHANGED <<restArgs, err>>
       ELSE /\ cmd' = [cmd EXCEPT !.Op = "query",
                                 !.Tasks = IF handleTasks(taskHandler, args).set
                                           THEN handleTasks(taskHandler, args).tasks
                                           ELSE @]
            /\ restArgs' = handleTasks(taskHandler, args).rest
            /\ err' = handleTasks(taskHandler, args).err
            /\ pc' = "tasksDone"
    /\ UNCHANGED <<taskHandler, argHandler, params, args, i, quant, unused,
                   calls, warned>>
    /\ UNCHANGED <<now, queryVars, dateVars, registryVars, clientVars,
                   serverVars>>

\* Parse, lines 387-394: the task stage.
ParseTasks ==
    /\ pc = "Parse"
    /\ IF taskHandler = "nil"
       THEN /\ pc' = "panic"
            /\ cmd' = [cmd EXCEPT !.Op = "query"]
            /\ UNCHANGED <<restArgs, err>>
       ELSE LET r == handleTasks(taskHandler, args)
            IN  /\ cmd' = [cmd EXCEPT !.Op = "query",
                                      !.Tasks = IF r.set THEN r.tasks ELSE @]
                /\ restArgs' = r.rest
                /\ err' = r.err
                /\ pc' = IF r.err # "nil" THEN "returned" ELSE "tasksDone"
    /\ UNCHANGED <<taskHandler, argHandler, params, args, i, quant, unused,
                   calls, warned>>
    /\ UNCHANGED <<now, queryVars, dateVars, registryVars, clientVars,
                   serverVars>>

\* Parse, lines 395-398: entering the argument stage.  noArgHandler returns
\* at once, and Parse warns about what it left.
ParseArgs ==
    /\ pc = "tasksDone"
    /\ pc' = CASE argHandler = "nil"   -> "panic"
               [] argHandler = "noArg" -> "returned"
               [] argHandler = "param" -> "HandleArgs"
    /\ i' = IF argHandler = "param" THEN 1 ELSE i
    /\ warned' = IF argHandler = "noArg" THEN restArgs ELSE warned
    /\ UNCHANGED <<taskHandler, argHandler, params, args, cmd, restArgs, quant,
                   unused, calls, err>>
    /\ UNCHANGED <<now, queryVars, dateVars, registryVars, clientVars,
                   serverVars>>

\* paramHandler.HandleArgs, lines 471-501: one iteration of the loop.  An
\* iteration that returns an error makes Parse return it (line 400).
HandleArgsStep ==
    /\ pc = "HandleArgs"
    /\ i <= Len(restArgs)
    /\ LET r == HandleArgsIteration(params, restArgs, i, quant, unused)
       IN  /\ i' = r.i
           /\ quant' = r.quant
           /\ unused' = r.unused
           /\ calls' = calls \o r.calls
           /\ err' = r.err
           /\ pc' = IF r.returns THEN "returned" ELSE "HandleArgs"
    /\ UNCHANGED <<taskHandler, argHandler, params, args, cmd, restArgs, warned>>
    /\ UNCHANGED <<now, queryVars, dateVars, registryVars, clientVars,
                   serverVars>>

\* paramHandler.HandleArgs, line 502, and Parse, lines 402-403: the loop is
\* over, HandleArgs returns unused, and Parse warns about it and returns.
HandleArgsReturn ==
    /\ pc = "HandleArgs"
    /\ i > Len(restArgs)
    /\ warned' = unused
    /\ pc' = "returned"
    /\ UNCHANGED <<taskHandler, argHandler, params, args, cmd, restArgs, i,
                   quant, unused, calls, err>>
    /\ UNCHANGED <<now, queryVars, dateVars, registryVars, clientVars,
                   serverVars>>

Init == ParserInit

Next ==
    \/ ParseTasks
    \/ ParseArgs
    \/ HandleArgsStep
    \/ HandleArgsReturn

Spec == Init /\ [][Next]_vars

-----------------------------------------------------------------------------
(* Package msg: the temporal query language (msg.go:12-41, 129-448).       *)

PrmToday == "--today"
PrmYesterday == "--yesterday"
PrmEver == "--ever"
PrmDate == "--day"
PrmMonth == "--month"
PrmYear == "--year"
PrmMonthsAgo == "--months-ago"
PrmYearsAgo == "--years-ago"
PrmThisWeek == "--this-week"
PrmLastWeek == "--last-week"
PrmThisMonth == "--this-month"
PrmLastMonth == "--last-month"
PrmThisYear == "--this-year"
PrmLastYear == "--last-year"
PrmSince == "--since"
PrmBetween == "--between"
QryDay == "day"
QryMonth == "month"
QryYear == "year"
QryBetween == "between"

isoDate(t) == FormatDate(t)

isValidIsoDate(s) == ParsesAsDate(s)

isValidYearMonth(s) == ParsesAsMonth(s)

\* strconv.Atoi: an optional sign and at least one digit.  (The values of the
\* model stay far below the 64-bit range, where Atoi reports an overflow.)
Atoi(s) ==
    LET signed == Len(s) > 0 /\ Char(s, 1) \in {"+", "-"}
        body   == IF signed THEN From(s, 2) ELSE s
    IN  IF Len(body) = 0 \/ ~AllDigits(body)
        THEN [ok |-> FALSE, val |-> 0]
        ELSE [ok |-> TRUE,
              val |-> IF signed /\ Char(s, 1) = "-"
                      THEN 0 - DigitsVal(body) ELSE DigitsVal(body)]

\* fmt.Sprint of an int.
Sprint(v) == IF v < 0 THEN "-" \o NatStr(0 - v) ELSE NatStr(v)

daysAgo(t, days) == <<QryDay, FormatDate(AddDate(t, 0, 0, 0 - days))>>

\* weeksAgo, lines 383-389: from the Monday start to the Sunday after it,
\* or to now when that Sunday is after now.
NotAfter(end, t) == IF end > t THEN t ELSE end

weekFrom(start, t) ==
    <<QryBetween, isoDate(start), isoDate(NotAfter(AddDate(start, 0, 0, 6), t))>>

\* weeksAgo taking Weekday for the days since Monday (no "+ 6").
weeksAgoFromSunday(t, weeks) ==
    weekFrom(AddDate(t, 0, 0, 0 - ((Weekday(t) % 7) + 7 * weeks)), t)

weeksAgo(t, weeks) ==
    weekFrom(AddDate(t, 0, 0, 0 - (((Weekday(t) + 6) % 7) + 7 * weeks)), t)

\* monthsAgo without the normalisation to the first of the month.
monthsAgoFromSameDay(t, months) ==
    <<QryMonth, FormatMonth(AddDate(t, 0, 0 - months, 0))>>

monthsAgo(t, months) ==
    <<QryMonth, FormatMonth(AddDate(t, 0, 0 - months, 0 - (Civil(t).day - 1)))>>

\* yearsAgo counting a year as 365 days.
yearsAgoByDays(t, years) == <<QryYear, FormatYear(AddDate(t, 0, 0, 0 - 365 * years))>>

yearsAgo(t, years) == <<QryYear, FormatYear(AddDate(t, 0 - years, 0, 0))>>

\* The functions of the detail parsers return a QueryParam and an error.
Detail(d) == [d |-> d, err |-> "nil"]

DetailError(e) == [d |-> <<>>, err |-> e]

invalidDate(s) == DetailError("InvalidDate")

getDate(mod, t) ==
    IF isValidIsoDate(mod) THEN Detail(<<QryDay, mod>>) ELSE invalidDate(mod)

getMonth(mod, t) ==
    IF isValidYearMonth(mod) THEN Detail(<<QryMonth, mod>>)
    ELSE DetailError("InvalidYearMonth")

getMonthsAgo(mod, t) ==
    LET num == Atoi(mod)
    IN  IF ~num.ok THEN DetailError("NumericParseError")
        ELSE Detail(monthsAgo(t, num.val))

getYear(mod, t) ==
    LET year == Atoi(mod)
    IN  IF ~year.ok THEN DetailError("NumericParseError")
        ELSE Detail(<<QryYear, Sprint(year.val)>>)

getYearsAgo(mod, t) ==
    LET num == Atoi(mod)
    IN  IF ~num.ok THEN DetailError("NumericParseError")
        ELSE Detail(yearsAgo(t, num.val))

\* getSince with the two dates of the QueryParam in the other order.
getSinceBackwards(mod, t) ==
    IF isValidIsoDate(mod) THEN Detail(<<QryBetween, isoDate(t), mod>>)
    ELSE invalidDate(mod)

getSince(mod, t) ==
    IF isValidIsoDate(mod) THEN Detail(<<QryBetween, mod, isoDate(t)>>)
    ELSE invalidDate(mod)

getSinceEpoch(t) == getSince("1970-01-01", t).d

betweenParse(t, mods) ==
    LET d1 == mods[1]
        d2 == mods[2]
    IN  IF ~isValidIsoDate(d1) THEN invalidDate(d1)
        ELSE IF ~isValidIsoDate(d2) THEN invalidDate(d2)
        ELSE Detail(<<QryBetween, d1, d2>>)

\* getDetailParsers: the table of parsers, in its order.  f names the
\* function of the parser and n the argument the table fixes for it.
DetailParser(id, mods, f, n) == [id |-> id, numberModifiers |-> mods, f |-> f, n |-> n]

getDetailParsers ==
    << DetailParser(PrmToday, 0, "daysAgo", 0),
       DetailParser(PrmYesterday, 0, "daysAgo", 1),
       DetailParser(PrmThisWeek, 0, "weeksAgo", 0),
       DetailParser(PrmLastWeek, 0, "weeksAgo", 1),
       DetailParser(PrmThisMonth, 0, "monthsAgo", 0),
       DetailParser(PrmLastMonth, 0, "monthsAgo", 1),
       DetailParser(PrmThisYear, 0, "yearsAgo", 0),
       DetailParser(PrmLastYear, 0, "yearsAgo", 1),
       DetailParser(PrmEver, 0, "getSinceEpoch", 0),
       DetailParser(PrmDate, 1, "getDate", 0),
       DetailParser(PrmMonth, 1, "getMonth", 0),
       DetailParser(PrmMonthsAgo, 1, "getMonthsAgo", 0),
       DetailParser(PrmYear, 1, "getYear", 0),
       DetailParser(PrmYearsAgo, 1, "getYearsAgo", 0),
       DetailParser(PrmSince, 1, "getSince", 0),
       DetailParser(PrmBetween, 2, "between", 0) >>

NoParser == DetailParser("", 0, "nil", 0)

\* findParser: the first parser of the table with the identifier, or nil.
findParser(arg) ==
    LET parsers == getDetailParsers
        found   == {k \in 1..Len(parsers) : parsers[k].id = arg}
    IN  IF found = {} THEN NoParser
        ELSE parsers[CHOOSE k \in found : \A j \in found : k <= j]

\* detailParser.parse of the three parser types.
parse(p, t, mods) ==
    CASE p.f = "daysAgo"       -> Detail(daysAgo(t, p.n))
      [] p.f = "weeksAgo"      -> Detail(weeksAgo(t, p.n))
      [] p.f = "monthsAgo"     -> Detail(monthsAgo(t, p.n))
      [] p.f = "yearsAgo"      -> Detail(yearsAgo(t, p.n))
      [] p.f = "getSinceEpoch" -> Detail(getSinceEpoch(t))
      [] p.f = "getDate"       -> getDate(mods[1], t)
      [] p.f = "getMonth"      -> getMonth(mods[1], t)
      [] p.f = "getMonthsAgo"  -> getMonthsAgo(mods[1], t)
      [] p.f = "getYear"       -> getYear(mods[1], t)
      [] p.f = "getYearsAgo"   -> getYearsAgo(mods[1], t)
      [] p.f = "getSince"      -> getSince(mods[1], t)
      [] p.f = "between"       -> betweenParse(t, mods)

\* getModifiers: the modifiers of the flag at position k, split on commas.
\* The cursor it is handed by reference is copied and the copy advanced, so
\* the caller's cursor never moves.  A flag without "=" at the end of the
\* list indexes past the end: a run-time panic.
getModifiers(k, a) ==
    IF Contains(a[k], "=")
    THEN [mods |-> Split(Split(a[k], "=")[2], ","), i |-> k, panics |-> FALSE]
    ELSE IF k + 1 > Len(a)
         THEN [mods |-> <<>>, i |-> k, panics |-> TRUE]
         ELSE [mods |-> Split(a[k + 1], ","), i |-> k, panics |-> FALSE]

\* The inner loop of getQueryParams (lines 176-186): the modifiers are
\* consumed numberModifiers at a time.
RECURSIVE parseModifiers(_, _, _, _)
\* Lines 181-185, r being what p.parse returned for the first modifiers.
parsedModifiers(p, t, modifiers, ds, r) ==
    IF r.err # "nil" THEN [details |-> ds, err |-> r.err]
    ELSE parseModifiers(p, t,
             SubSeq(modifiers, p.numberModifiers + 1, Len(modifiers)),
             Append(ds, r.d))

parseModifiers(p, t, modifiers, ds) ==
    IF Len(modifiers) = 0 THEN [details |-> ds, err |-> "nil"]
    ELSE IF Len(modifiers) < p.numberModifiers
         THEN [details |-> ds, err |-> "UnbalancedModifiers"]
         ELSE parsedModifiers(p, t, modifiers, ds,
                  parse(p, t, SubSeq(modifiers, 1, p.numberModifiers)))

\* The end of the inner loop, r being its outcome: an error returns, and
\* otherwise the outer loop goes on after cursor k.
afterModifiers(k, r) ==
    IF r.err # "nil"
    THEN [i |-> k, details |-> r.details, returns |-> TRUE, err |-> r.err,
          panics |-> FALSE]
    ELSE [i |-> k + 1, details |-> r.details, returns |-> FALSE, err |-> "nil",
          panics |-> FALSE]

Continue(k, ds) ==
    [i |-> k + 1, details |-> ds, returns |-> FALSE, err |-> "nil",
     panics |-> FALSE]

\* Lines 174-186, m being what getModifiers returned.
withModifiers(p, t, k, ds, m) ==
    IF m.panics THEN [Continue(k, ds) EXCEPT !.panics = TRUE]
    ELSE afterModifiers(m.i, parseModifiers(p, t, m.mods, ds))

\* Lines 188-192, r being what p.parse returned.
withoutModifiers(k, ds, r) ==
    IF r.err # "nil"
    THEN [Continue(k, ds) EXCEPT !.returns = TRUE, !.err = r.err]
    ELSE Continue(k, Append(ds, r.d))

\* Lines 169-193, p being what findParser returned.
withParser(a, t, k, ds, p) ==
    IF p = NoParser
    THEN [Continue(k, ds) EXCEPT !.returns = TRUE, !.err = "NoParser"]
    ELSE IF p.numberModifiers > 0
         THEN withModifiers(p, t, k, ds, getModifiers(k, a))
         ELSE withoutModifiers(k, ds, parse(p, t, <<>>))

\* One iteration of the outer loop of getQueryParams (lines 163-194) at
\* cursor k: the new cursor and details, and whether the iteration returns
\* (with which error) or panics.
getQueryParamsIteration(a, t, k, ds) ==
    IF a[k] = "" THEN Continue(k, ds)
    ELSE withParser(a, t, k, ds, findParser(Split(a[k], "=")[1]))

-----------------------------------------------------------------------------
(* getQueryParams (msg.go:157-197), one action per loop iteration.         *)

\* time.Now(), read after the instant t was taken: the same day or, past
\* midnight, a later one.
timeNow(t) == {t, t + 1}

\* strings.Join with ",".
RECURSIVE JoinComma(_)
JoinComma(fields) ==
    IF Len(fields) = 1 THEN fields[1]
    ELSE fields[1] \o "," \o JoinComma(Tail(fields))

\* The instants of the query runs: a Monday that is the 31st, a Thursday,
\* a Wednesday that is the first of a year, and a 29th of February.
NowPool == {Date(2021, 5, 31), Date(2023, 6, 15), Date(2020, 1, 1), Date(2024, 2, 29)}

\* Date strings, well formed and not.
DateStrings ==
    {"1970-01-01", "2020-01-01", "2020-02-29", "2021-12-31", "2021-02-29",
     "2020-13-01",
     "2020-01-00", "2020-1-1", "20200101", "2020-01-01x", "today", ""}

\* Modifier lists of 1..MaxFragments fragments.
FragmentLists ==
    {JoinComma(f) : f \in SeqsUpTo({"2020-01-01", "2020-01-31", "2020-02-30"},
                                   MaxFragments) \ {<<>>}}

\* Modifiers of the month flag and of the flags that take a number.
MonthStrings == {"2020-02", "2020-13", "2020-2", "202002"}

YearStrings == {"2020", "20200", "5", "-5", "+7", "0"}

NumberStrings == {"5", "-5", "+7", "0", "1", "x", ""}

\* The flags with one modifier other than the day flag, and the modifiers
\* the model gives each of them.
SingleModifierFlags == {PrmMonth, PrmYear, PrmMonthsAgo, PrmYearsAgo, PrmSince}

ModifiersFor(flag) ==
    CASE flag = PrmMonth -> MonthStrings \cup {"2020-01-01", ""}
      [] flag = PrmYear  -> YearStrings \cup NumberStrings
      [] flag = PrmSince -> DateStrings \cup FragmentLists
      [] OTHER           -> NumberStrings

QueryTokens ==
    {PrmToday, PrmYesterday, PrmThisWeek, PrmLastWeek, PrmThisMonth,
     PrmLastMonth, PrmThisYear, PrmLastYear, PrmEver,
     PrmDate, "--day=2020-02-29", "--day=2021-02-29", "2020-02-29",
     PrmBetween, "--between=2020-01-01,2020-01-31",
     "--between=2020-01-01,2020-01-31,2020-02-01",
     "--between=2020-01-01,2020-01-31,2020-02-01,2020-02-28",
     "2020-01-01,2020-01-31", "", "--bogus"}

\* The argument lists of the query runs: every list of tokens, every date
\* string and every modifier list behind the day and between flags, in
\* the one-token and in the two-token form.
QueryArgLists ==
    SeqsUpTo(QueryTokens, MaxQueryArgs)
    \cup {<<f \o "=" \o m>> : f \in {PrmDate, PrmBetween},
                              m \in DateStrings \cup FragmentLists}
    \cup {<<f, m>> : f \in {PrmDate, PrmBetween},
                     m \in DateStrings \cup FragmentLists}
    \cup UNION {{<<f \o "=" \o m>> : m \in ModifiersFor(f)} :
                    f \in SingleModifierFlags}

QueryInit ==
    /\ ParserIdle
    /\ DatesIdle
    /\ RegistryIdle
    /\ ClientIdle
    /\ ServerIdle
    /\ now \in NowPool
    /\ qargs \in QueryArgLists
    /\ qi = 1
    /\ details = <<>>
    /\ qerr = "nil"
    /\ qpc = "getQueryParams"

\* Lines 158-160: no arguments at all.
QueryDefault ==
    /\ qpc = "getQueryParams"
    /\ Len(qargs) = 0
    /\ \E clock \in timeNow(now) : details' = << <<QryDay, isoDate(clock)>> >>
    /\ qpc' = "returned"
    /\ UNCHANGED <<parserVars, now, qargs, qi, qerr, dateVars, registryVars, clientVars,
                   serverVars>>

\* The effect of an iteration with outcome r on the state of the loop.
QueryStepTo(r) ==
    /\ qi' = r.i
    /\ details' = r.details
    /\ qerr' = r.err
    /\ qpc' = IF r.panics THEN "panic"
              ELSE IF r.returns THEN "returned"
              ELSE "getQueryParams"

\* Lines 163-194: one iteration of the loop.
QueryStep ==
    /\ qpc = "getQueryParams"
    /\ Len(qargs) > 0
    /\ qi <= Len(qargs)
    /\ QueryStepTo(getQueryParamsIteration(qargs, now, qi, details))
    /\ UNCHANGED <<parserVars, now, qargs, dateVars, registryVars, clientVars,
                   serverVars>>

\* Line 196: the loop is over.
QueryReturn ==
    /\ qpc = "getQueryParams"
    /\ Len(qargs) > 0
    /\ qi > Len(qargs)
    /\ qpc' = "returned"
    /\ UNCHANGED <<parserVars, now, qargs, qi, details, qerr, dateVars, registryVars, clientVars,
                   serverVars>>

QueryNext ==
    \/ QueryDefault
    \/ QueryStep
    \/ QueryReturn

SpecQuery == QueryInit /\ [][QueryNext]_vars

-----------------------------------------------------------------------------
(* Direct calls of the date functions (msg.go:372-405) and of the parsers  *)
(* without modifiers (msg.go:137-145), for every day of a range of years.  *)
(* Each run makes one call.                                                *)

AllDays == Date(FirstYear, 1, 1)..(Date(FirstYear + NumYears, 1, 1) - 1)

DatesInit ==
    /\ ParserIdle
    /\ QueryIdle
    /\ RegistryIdle
    /\ ClientIdle
    /\ ServerIdle
    /\ now \in AllDays
    /\ called = <<"none", 0>>
    /\ res = <<>>

CallDaysAgo ==
    /\ called[1] = "none"
    /\ \E n \in 0..MaxAgo :
          /\ called' = <<"daysAgo", n>>
          /\ res' = daysAgo(now, n)
    /\ UNCHANGED <<parserVars, now, queryVars, registryVars, clientVars,
                   serverVars>>

CallWeeksAgo ==
    /\ called[1] = "none"
    /\ \E n \in 0..MaxAgo :
          /\ called' = <<"weeksAgo", n>>
          /\ res' = weeksAgo(now, n)
    /\ UNCHANGED <<parserVars, now, queryVars, registryVars, clientVars,
                   serverVars>>

CallMonthsAgo ==
    /\ called[1] = "none"
    /\ \E n \in 0..MaxAgo :
          /\ called' = <<"monthsAgo", n>>
          /\ res' = monthsAgo(now, n)
    /\ UNCHANGED <<parserVars, now, queryVars, registryVars, clientVars,
                   serverVars>>

CallYearsAgo ==
    /\ called[1] = "none"
    /\ \E n \in 0..MaxAgo :
          /\ called' = <<"yearsAgo", n>>
          /\ res' = yearsAgo(now, n)
    /\ UNCHANGED <<parserVars, now, queryVars, registryVars, clientVars,
                   serverVars>>

\* A flag without modifiers, resolved through the table of parsers.
ResolveFlag ==
    /\ called[1] = "none"
    /\ \E k \in 1..Len(getDetailParsers) :
          /\ getDetailParsers[k].numberModifiers = 0
          /\ called' = <<getDetailParsers[k].id, 0>>
          /\ res' = parse(findParser(getDetailParsers[k].id), now, <<>>).d
    /\ UNCHANGED <<parserVars, now, queryVars, registryVars, clientVars,
                   serverVars>>

DatesNext ==
    \/ CallDaysAgo
    \/ CallWeeksAgo
    \/ CallMonthsAgo
    \/ CallYearsAgo
    \/ ResolveFlag

SpecDates == DatesInit /\ [][DatesNext]_vars

-----------------------------------------------------------------------------
(* Building a Param registry: HandlerForParams (server.go:505-515) and     *)
(* newQueryArgHandler with registerParam (parse.go:50-55, 62-127).  Both   *)
(* start from a map that was never made: "var pmap map[string]Param" and   *)
(* the struct literal "&queryArgHandler{now: now}" leave it nil.           *)

\* The Params the lists to register are made of.
ParamPool ==
    {Param("today", FALSE, "fixedDay"), Param("ever", FALSE, "fixedDay"),
     Param("day", TRUE, "dates"), Param("day", FALSE, "fixedDay")}

ParamLists == SeqsUpTo(ParamPool, MaxParams)

RegistryInit ==
    /\ ParserIdle
    /\ QueryIdle
    /\ DatesIdle
    /\ ClientIdle
    /\ ServerIdle
    /\ now = 0
    /\ builder \in {"HandlerForParams", "newQueryArgHandler"}
    /\ paramList \in ParamLists
    /\ pmap = NilMap
    /\ ri = 1
    /\ rpc = "loop"

\* The test "_, ok := pmap[param.Name]" (lines 508, parse.go:51): a nil map
\* has no entry.
HasEntry(m, name) == ~m.isNil /\ name \in DOMAIN m.entries

\* pmap[param.Name] = param into a map that holds entries.
WithEntry(m, param) ==
    [m EXCEPT !.entries =
        [name \in DOMAIN m.entries \cup {param.Name} |->
            IF name = param.Name THEN param ELSE m.entries[name]]]

\* One iteration of the range loop (lines 507-512; parse.go:122-124 with
\* registerParam): a name that is in the map already panics with
\* "Duplicate param name", and the assignment panics on a nil map.
RegisterParam ==
    /\ rpc = "loop"
    /\ ri <= Len(paramList)
    /\ LET param == paramList[ri]
       IN  IF HasEntry(pmap, param.Name)
           THEN rpc' = "panic" /\ UNCHANGED <<pmap, ri>>
           ELSE IF pmap.isNil
                THEN rpc' = "panic" /\ UNCHANGED <<pmap, ri>>
                ELSE /\ pmap' = WithEntry(pmap, param)
                     /\ ri' = ri + 1
                     /\ rpc' = "loop"
    /\ UNCHANGED <<builder, paramList>>
    /\ UNCHANGED <<parserVars, now, queryVars, dateVars, clientVars,
                   serverVars>>

\* The loop is over: the handler is returned with the map (lines 514,
\* parse.go:126).
RegistryReturn ==
    /\ rpc = "loop"
    /\ ri > Len(paramList)
    /\ rpc' = "returned"
    /\ UNCHANGED <<builder, paramList, pmap, ri>>
    /\ UNCHANGED <<parserVars, now, queryVars, dateVars, clientVars,
                   serverVars>>

RegistryNext ==
    \/ RegisterParam
    \/ RegistryReturn

SpecRegistry == RegistryInit /\ [][RegistryNext]_vars

-----------------------------------------------------------------------------
(* Client.ensureServerIsRunning (client.go:101-142): the caller, the       *)
(* goroutine that polls server.IsRunning, and the server process that      *)
(* StartInBackground has started and that creates the socket when it is    *)
(* up.  notifyChan is unbuffered: a send completes only together with the  *)
(* receive of the select.  The timer of time.After may fire at any point   *)
(* of the goroutine's progress.                                            *)

ClientInit ==
    /\ ParserIdle
    /\ QueryIdle
    /\ DatesIdle
    /\ RegistryIdle
    /\ ServerIdle
    /\ now = 0
    /\ conn \in {"nil", "set"}
    /\ socket \in BOOLEAN
    /\ notifyChan = "nil"
    /\ cpc = "ensureServerIsRunning"
    /\ gpc = "idle"
    /\ polls = 0
    /\ cerr = "nil"

\* server.IsRunning (server.go:53-61): os.Stat of the socket; statFails is
\* an error other than "does not exist".
IsRunning(statFails) ==
    IF statFails THEN [running |-> FALSE, err |-> "StatusError"]
    ELSE [running |-> socket, err |-> "nil"]

\* Lines 103-110 and 141: connected already, or the status query.
CheckRunning ==
    /\ cpc = "ensureServerIsRunning"
    /\ \E statFails \in BOOLEAN :
          IF conn # "nil"
          THEN cpc' = "returned" /\ cerr' = "nil"
          ELSE IF IsRunning(statFails).err # "nil"
               THEN cpc' = "returned" /\ cerr' = IsRunning(statFails).err
               ELSE IF IsRunning(statFails).running
                    THEN cpc' = "returned" /\ cerr' = "nil"
                    ELSE cpc' = "StartInBackground" /\ cerr' = cerr
    /\ UNCHANGED <<conn, socket, notifyChan, gpc, polls>>
    /\ UNCHANGED <<parserVars, now, queryVars, dateVars, registryVars,
                   serverVars>>

\* Lines 114-117: start the server process; the start may fail.
StartServer ==
    /\ cpc = "StartInBackground"
    /\ \E started \in BOOLEAN :
          IF started
          THEN cpc' = "go" /\ cerr' = cerr
          ELSE cpc' = "returned" /\ cerr' = "StartError"
    /\ UNCHANGED <<conn, socket, notifyChan, gpc, polls>>
    /\ UNCHANGED <<parserVars, now, queryVars, dateVars, registryVars,
                   serverVars>>

\* Lines 120-131: make the channel and start the polling goroutine.
StartPolling ==
    /\ cpc = "go"
    /\ notifyChan' = "open"
    /\ gpc' = "IsRunning"
    /\ cpc' = "select"
    /\ UNCHANGED <<conn, socket, polls, cerr>>
    /\ UNCHANGED <<parserVars, now, queryVars, dateVars, registryVars,
                   serverVars>>

\* The server process that was started comes up and creates its socket
\* (server.init, server.go:113).
ServerComesUp ==
    /\ cpc \in {"go", "select", "returned"}
    /\ notifyChan # "nil" \/ cpc = "go"
    /\ ~socket
    /\ socket' = TRUE
    /\ UNCHANGED <<conn, notifyChan, cpc, gpc, polls, cerr>>
    /\ UNCHANGED <<parserVars, now, queryVars, dateVars, registryVars,
                   serverVars>>

\* Goroutine, lines 123-124: one poll; an error of IsRunning is dropped.
Poll ==
    /\ gpc = "IsRunning"
    /\ polls < MaxPolls
    /\ polls' = polls + 1
    /\ \E statFails \in BOOLEAN :
          gpc' = IF IsRunning(statFails).running THEN "send" ELSE "Sleep"
    /\ UNCHANGED <<conn, socket, notifyChan, cpc, cerr>>
    /\ UNCHANGED <<parserVars, now, queryVars, dateVars, registryVars,
                   serverVars>>

\* Goroutine, line 128.
Sleep ==
    /\ gpc = "Sleep"
    /\ gpc' = "IsRunning"
    /\ UNCHANGED <<conn, socket, notifyChan, cpc, polls, cerr>>
    /\ UNCHANGED <<parserVars, now, queryVars, dateVars, registryVars,
                   serverVars>>

\* Lines 125-126 with 133-134: the send meets the receive of the select.
Notify ==
    /\ gpc = "send"
    /\ cpc = "select"
    /\ notifyChan = "open"
    /\ gpc' = "done"
    /\ cpc' = "returned"
    /\ cerr' = "nil"
    /\ UNCHANGED <<conn, socket, notifyChan, polls>>
    /\ UNCHANGED <<parserVars, now, queryVars, dateVars, registryVars,
                   serverVars>>

\* Lines 135-137: the timer fires, the channel is closed.
Timeout ==
    /\ cpc = "select"
    /\ notifyChan' = "closed"
    /\ cpc' = "returned"
    /\ cerr' = "Timeout"
    /\ UNCHANGED <<conn, socket, gpc, polls>>
    /\ UNCHANGED <<parserVars, now, queryVars, dateVars, registryVars,
                   serverVars>>

\* Line 125 on a closed channel: the send statement panics, also when it
\* was blocked at the moment of the close.
SendOnClosed ==
    /\ gpc = "send"
    /\ notifyChan = "closed"
    /\ gpc' = "panic"
    /\ UNCHANGED <<conn, socket, notifyChan, cpc, polls, cerr>>
    /\ UNCHANGED <<parserVars, now, queryVars, dateVars, registryVars,
                   serverVars>>

ClientNext ==
    \/ CheckRunning
    \/ StartServer
    \/ StartPolling
    \/ ServerComesUp
    \/ Poll
    \/ Sleep
    \/ Notify
    \/ Timeout
    \/ SendOnClosed

SpecClient == ClientInit /\ [][ClientNext]_vars

-----------------------------------------------------------------------------
(* The server after init: Run and server.main (server.go:31-43, 138-163)   *)
(* with the goroutine waitForConnection (server.go:166-179), the clients   *)
(* that connect to the socket, the signals of the operating system and     *)
(* the shutdown requests that arrive over a connection.  connectChan is    *)
(* unbuffered, signalChan has room for one signal.  A panic of the         *)
(* goroutine ends the process.                                             *)

ServerInit ==
    /\ ParserIdle
    /\ QueryIdle
    /\ DatesIdle
    /\ RegistryIdle
    /\ ClientIdle
    /\ now = 0
    /\ spc = "main"
    /\ wpc = "idle"
    /\ connectChan = "nil"
    /\ signalChan = 0
    /\ shutdownChan = "open"
    /\ listener = "open"
    /\ backlog \in 0..1
    /\ accepted = 0

\* The process is running: the goroutine has not panicked.
ProcessAlive == wpc # "panic"

\* main, lines 140-148: the channels, signal.Notify, go waitForConnection.
StartMain ==
    /\ spc = "main"
    /\ connectChan' = "open"
    /\ wpc' = "Accept"
    /\ spc' = "select"
    /\ UNCHANGED <<signalChan, shutdownChan, listener, backlog, accepted>>
    /\ UNCHANGED <<parserVars, now, queryVars, dateVars, registryVars,
                   clientVars>>

\* A client connects to the socket.
ClientConnects ==
    /\ ProcessAlive
    /\ listener = "open"
    /\ backlog + accepted < MaxConns
    /\ backlog' = backlog + 1
    /\ UNCHANGED <<spc, wpc, connectChan, signalChan, shutdownChan, listener,
                   accepted>>
    /\ UNCHANGED <<parserVars, now, queryVars, dateVars, registryVars,
                   clientVars>>

\* SIGINT or SIGTERM arrives while signal.Notify is in force (line 146).
SignalArrives ==
    /\ ProcessAlive
    /\ spc \in {"select", "serveConnection"}
    /\ signalChan = 0
    /\ signalChan' = 1
    /\ UNCHANGED <<spc, wpc, connectChan, shutdownChan, listener, backlog,
                   accepted>>
    /\ UNCHANGED <<parserVars, now, queryVars, dateVars, registryVars,
                   clientVars>>

\* waitForConnection, lines 168-175: Accept returns a connection, or, with
\* the listener closed, an error; shuttingDown (lines 64-71) is a receive
\* on shutdownChan that does not block.
Accept ==
    /\ wpc = "Accept"
    /\ IF listener = "open"
       THEN /\ backlog > 0
            /\ backlog' = backlog - 1
            /\ accepted' = accepted + 1
            /\ wpc' = "send"
       ELSE /\ wpc' = IF shutdownChan # "open" THEN "returned" ELSE "Accept"
            /\ UNCHANGED <<backlog, accepted>>
    /\ UNCHANGED <<spc, connectChan, signalChan, shutdownChan, listener>>
    /\ UNCHANGED <<parserVars, now, queryVars, dateVars, registryVars,
                   clientVars>>

\* Line 176 with lines 155-156: the send meets the receive of the select.
Deliver ==
    /\ wpc = "send"
    /\ spc = "select"
    /\ connectChan = "open"
    /\ wpc' = "Accept"
    /\ spc' = "serveConnection"
    /\ UNCHANGED <<connectChan, signalChan, shutdownChan, listener, backlog,
                   accepted>>
    /\ UNCHANGED <<parserVars, now, queryVars, dateVars, registryVars,
                   clientVars>>

\* serveConnection, lines 182-185: the requests of the connection are
\* served; a shutdown request is handed to shutdownChan by the handler
\* (line 104).
ServeConnection ==
    /\ ProcessAlive
    /\ spc = "serveConnection"
    /\ spc' = "select"
    /\ \E request \in {"shutdown", "other"} :
          shutdownChan' = IF request = "shutdown" THEN "requested"
                          ELSE shutdownChan
    /\ UNCHANGED <<wpc, connectChan, signalChan, listener, backlog, accepted>>
    /\ UNCHANGED <<parserVars, now, queryVars, dateVars, registryVars,
                   clientVars>>

\* Lines 157-159: the select takes the signal.
TakeSignal ==
    /\ ProcessAlive
    /\ spc = "select"
    /\ signalChan = 1
    /\ signalChan' = 0
    /\ spc' = "break"
    /\ UNCHANGED <<wpc, connectChan, shutdownChan, listener, backlog, accepted>>
    /\ UNCHANGED <<parserVars, now, queryVars, dateVars, registryVars,
                   clientVars>>

\* Lines 159-160: the select takes the shutdown request.
TakeShutdown ==
    /\ ProcessAlive
    /\ spc = "select"
    /\ shutdownChan = "requested"
    /\ shutdownChan' = "open"
    /\ spc' = "break"
    /\ UNCHANGED <<wpc, connectChan, signalChan, listener, backlog, accepted>>
    /\ UNCHANGED <<parserVars, now, queryVars, dateVars, registryVars,
                   clientVars>>

\* main returns: its deferred close(connectChan) and close(signalChan)
\* (lines 142-143).
CloseConnectChan ==
    /\ ProcessAlive
    /\ spc = "break"
    /\ connectChan' = "closed"
    /\ spc' = "Run"
    /\ UNCHANGED <<wpc, signalChan, shutdownChan, listener, backlog, accepted>>
    /\ UNCHANGED <<parserVars, now, queryVars, dateVars, registryVars,
                   clientVars>>

\* Run returns: its deferred close(s.shutdownChan) (line 39).
CloseShutdownChan ==
    /\ ProcessAlive
    /\ spc = "Run"
    /\ shutdownChan' = "closed"
    /\ spc' = "enforceCleanup"
    /\ UNCHANGED <<wpc, connectChan, signalChan, listener, backlog, accepted>>
    /\ UNCHANGED <<parserVars, now, queryVars, dateVars, registryVars,
                   clientVars>>

\* enforceCleanup and shutdown (lines 37, 130-135, 188-200): the listener
\* is closed.
Shutdown ==
    /\ ProcessAlive
    /\ spc = "enforceCleanup"
    /\ listener' = "closed"
    /\ spc' = "returned"
    /\ UNCHANGED <<wpc, connectChan, signalChan, shutdownChan, backlog,
                   accepted>>
    /\ UNCHANGED <<parserVars, now, queryVars, dateVars, registryVars,
                   clientVars>>

\* Line 176 on the closed channel: the send statement panics, also when it
\* was blocked at the moment of the close.
SendOnClosedConnectChan ==
    /\ wpc = "send"
    /\ connectChan = "closed"
    /\ wpc' = "panic"
    /\ UNCHANGED <<spc, connectChan, signalChan, shutdownChan, listener,
                   backlog, accepted>>
    /\ UNCHANGED <<parserVars, now, queryVars, dateVars, registryVars,
                   clientVars>>

ServerNext ==
    \/ StartMain
    \/ ClientConnects
    \/ SignalArrives
    \/ Accept
    \/ Deliver
    \/ ServeConnection
    \/ TakeSignal
    \/ TakeShutdown
    \/ CloseConnectChan
    \/ CloseShutdownChan
    \/ Shutdown
    \/ SendOnClosedConnectChan

SpecServer == ServerInit /\ [][ServerNext]_vars

-----------------------------------------------------------------------------
(* Properties of Parser.Parse, checked under Spec.                         *)

\* HandleArgs of the registry-backed handler has run and Parse has returned.
ArgsHandled == pc = "returned" /\ argHandler = "param" /\ i >= 1

UnknownFlag(p, token) ==
    isParamIdentifier(token) /\ cleanParam(token) \notin DOMAIN p

\* The token is a registered flag that takes the token after it as its
\* argument.
TakesNextToken(p, token) ==
    /\ isParamIdentifier(token)
    /\ cleanParam(token) \in DOMAIN p
    /\ p[cleanParam(token)].RequiresArg
    /\ ~Contains(token, "=")

\* The token at position k is an unknown flag, and is not the argument of
\* the flag before it.
UnknownFlagAt(p, a, k) ==
    /\ UnknownFlag(p, a[k])
    /\ k > 1 => ~TakesNextToken(p, a[k - 1])

\* The parse was ended by the argument of a recognized flag: the argument
\* is missing, or its Quantifier rejected it.
RecognizedFlagFailed == err \in {"MissingArgument", "InvalidDate"}

\* C1: a token list that contains a flag-shaped token whose cleaned name is
\* not in the registry makes the parse fail with UnknownParameter, whatever
\* else the list holds and wherever the unknown flag stands.  Parses that a
\* recognized flag has already ended with its own error are left aside: the
\* property is that the parse of such a list never succeeds and never
\* reports another kind.
C1_UnknownFlagFails ==
    (/\ ArgsHandled
     /\ ~RecognizedFlagFailed
     /\ \E k \in 1..Len(restArgs) : UnknownFlagAt(params, restArgs, k))
        => err = "UnknownParameter"

\* The Quantities the Quantifiers returned for the calls cs, in their order.
RECURSIVE QuantitiesOfCalls(_, _)
QuantitiesOfCalls(p, cs) ==
    IF Len(cs) = 0 THEN <<>>
    ELSE QuantifierParse(p[Head(cs)[1]].Quantifier, Head(cs)[2]).q
             \o QuantitiesOfCalls(p, Tail(cs))

\* C2: after a successful parse the quantities of the Command are the
\* concatenation, in token order, of the Quantities that the Quantifier of
\* each recognized flag returned for its argument.
C2_QuantitiesInCommand ==
    (ArgsHandled /\ err = "nil")
        => cmd.Quantities = QuantitiesOfCalls(params, calls)

\* The task field holds the sentinel together with at least one other name.
SentinelAmongOthers(field) ==
    /\ Len(Split(field, ",")) > 1
    /\ \E k \in 1..Len(Split(field, ",")) : Split(field, ",")[k] = AllTasks

\* C9: the multi task selector, given a first token that holds the "all
\* tasks" sentinel together with another name, fails with MixedAllTasks and
\* with no other error.
C9_MixedAllTasks ==
    (/\ taskHandler = "multi"
     /\ pc # "Parse"
     /\ Len(args) > 0
     /\ SentinelAmongOthers(args[1]))
        => (pc = "returned" /\ err = "MixedAllTasks")

\* The task stage has failed with the error e and has set no task.
TaskStageFailed(e) == pc = "returned" /\ err = e /\ cmd.Tasks = <<>>

\* The field splits on commas into more than one task name.
SeveralNames(field) ==
    /\ field # AllTasks
    /\ Len(Split(field, ",")) > 1
    /\ \A k \in 1..Len(Split(field, ",")) :
          /\ ~HasPrefix(Split(field, ",")[k], ":")
          /\ ~ContainsAny(Split(field, ",")[k], {" ", "\t", "\n"})

\* C10: the single task selector fails with MissingTask on an empty token
\* list, with AmbiguousTask when the first token splits on commas into more
\* than one name, and with ReservedTaskName when the first token is the
\* sentinel; in each case no task is set on the Command.
C10_SingleTaskErrors ==
    (taskHandler = "single" /\ pc # "Parse")
        => /\ Len(args) = 0 => TaskStageFailed("MissingTask")
           /\ (Len(args) > 0 /\ SeveralNames(args[1]))
                 => TaskStageFailed("AmbiguousTask")
           /\ (Len(args) > 0 /\ args[1] = AllTasks)
                 => TaskStageFailed("ReservedTaskName")

C10_Witness ==
    /\ taskHandler = "single"
    /\ Len(args) > 0
    /\ args[1] = "a,b"
    /\ TaskStageFailed("AmbiguousTask")

\* The task stage of a parser with a task selector has succeeded.
TaskStageDone == taskHandler \in {"single", "multi"} /\ pc = "tasksDone"

\* C11: on success the single and the multi task selector consume exactly
\* the first token: the remaining tokens are the tokens after the first,
\* unchanged, and the task names of the Command are the comma-separated
\* fragments of the first token in their order.
C11_ConsumesFirstToken ==
    TaskStageDone
        => /\ Len(args) > 0
           /\ restArgs = SubSeq(args, 2, Len(args))
           /\ cmd.Tasks = Split(args[1], ",")

C11_Witness ==
    /\ TaskStageDone
    /\ taskHandler = "multi"
    /\ Len(args) > 1
    /\ args[1] = "a,b,c"
    /\ cmd.Tasks = <<"a", "b", "c">>

\* Some comma-separated fragment of the field starts with the flag prefix
\* or holds a space, a tab or a newline.
HasInvalidFragment(field) ==
    \E k \in 1..Len(Split(field, ",")) :
        \/ HasPrefix(Split(field, ",")[k], ":")
        \/ ContainsAny(Split(field, ",")[k], {" ", "\t", "\n"})

\* C12: GetTaskNames on a field other than the sentinel fails with
\* InvalidTaskName if and only if some fragment starts with the flag prefix
\* or contains a space, a tab or a newline; otherwise it returns all the
\* fragments (seen through the multi selector, which stores them).
C12_TaskNameValidation ==
    (/\ taskHandler \in {"single", "multi"}
     /\ pc # "Parse"
     /\ Len(args) > 0
     /\ args[1] # AllTasks)
        => /\ (pc = "returned" /\ err = "InvalidTaskName")
                 <=> HasInvalidFragment(args[1])
           /\ (taskHandler = "multi" /\ ~HasInvalidFragment(args[1]))
                 => cmd.Tasks = Split(args[1], ",")

C12_Witness ==
    /\ taskHandler = "multi"
    /\ Len(args) > 0
    /\ args[1] = "a,b\tc"
    /\ pc = "returned"
    /\ err = "InvalidTaskName"
    /\ cmd.Tasks = <<>>

\* C13: Parse on a Parser built without a task selector or without an
\* ArgHandler never returns, neither a Command nor an input error: it
\* panics, for every argument list.
C13_UnconfiguredPanics ==
    (taskHandler = "nil" \/ argHandler = "nil") => pc # "returned"

\* C14: when Parse returns an error, the Command returned with it carries no
\* task names and no quantities, also when the task stage had succeeded and
\* the argument stage failed.
C14_NoPartialCommand ==
    (pc = "returned" /\ err # "nil")
        => (cmd.Tasks = <<>> /\ cmd.Quantities = <<>>)

\* The token is a flag of the registry.
RecognizedFlag(p, token) ==
    isParamIdentifier(token) /\ cleanParam(token) \in DOMAIN p

\* The tokens of a from position k on that are neither a recognized flag nor
\* the next-token argument of one, in their order.
RECURSIVE Leftover(_, _, _)
Leftover(p, a, k) ==
    IF k > Len(a) THEN <<>>
    ELSE IF RecognizedFlag(p, a[k])
         THEN Leftover(p, a, IF TakesNextToken(p, a[k]) THEN k + 2 ELSE k + 1)
         ELSE <<a[k]>> \o Leftover(p, a, k + 1)

\* C15: after a successful HandleArgs every input token is a recognized
\* flag, the next-token argument of a recognized flag, or an element of the
\* returned unused list, where the tokens keep their order; the caller warns
\* about that list.
C15_NothingDropped ==
    (ArgsHandled /\ err = "nil")
        => /\ unused = Leftover(params, restArgs, 1)
           /\ warned = unused

\* The part of the token after its first "=".
ValueSuffix(token) == From(token, IndexOf(token, "=") + 1)

\* The loop of HandleArgs is at a recognized flag that requires an argument.
AtFlagWithArgument ==
    /\ pc = "HandleArgs"
    /\ i <= Len(restArgs)
    /\ RecognizedFlag(params, restArgs[i])
    /\ params[cleanParam(restArgs[i])].RequiresArg

\* C16: for a recognized flag that requires an argument, the Quantifier is
\* called with the whole part of the token after "=" when the token holds
\* "=", and otherwise with the next whole token; in the second case the
\* cursor moves on by 2 and the next token is not added to unused.
C16_ArgumentPassed ==
    [][AtFlagWithArgument =>
          IF Contains(restArgs[i], "=")
          THEN calls' = Append(calls, <<cleanParam(restArgs[i]),
                                        ValueSuffix(restArgs[i])>>)
          ELSE i < Len(restArgs) =>
                  /\ calls' = Append(calls, <<cleanParam(restArgs[i]),
                                              restArgs[i + 1]>>)
                  /\ unused' = unused
                  /\ pc' = "HandleArgs" => i' = i + 2]_vars

\* C17: when the loop of HandleArgs comes to a recognized flag that requires
\* an argument, has no "=" and is the last token, the parse fails with
\* MissingArgument and no Quantifier is called for the flag.
C17_MissingArgument ==
    [][(/\ pc = "HandleArgs"
        /\ i = Len(restArgs)
        /\ TakesNextToken(params, restArgs[i]))
          => /\ pc' = "returned"
             /\ err' = "MissingArgument"
             /\ calls' = calls]_vars

C17_Witness ==
    /\ ArgsHandled
    /\ Len(restArgs) > 1
    /\ restArgs[Len(restArgs)] = ":day"
    /\ i = Len(restArgs) + 1
    /\ err = "MissingArgument"
    /\ Len(calls) = 1

\* C20: the task names of the Command of a successful parse are pairwise
\* distinct.
C20_DistinctTaskNames ==
    (pc = "returned" /\ err = "nil")
        => \A j, k \in 1..Len(cmd.Tasks) : j # k => cmd.Tasks[j] # cmd.Tasks[k]

\* What HandleArgs of the registry-backed handler returns for the arguments
\* a, run from cursor k on: the unused list, the error and the Quantifier
\* calls it makes.
RECURSIVE HandleArgsFrom(_, _, _, _, _, _), HandleArgsAfter(_, _, _, _)
HandleArgsFrom(p, a, k, qs, un, cs) ==
    IF k > Len(a)
    THEN [unused |-> un, err |-> "nil", calls |-> cs]
    ELSE HandleArgsAfter(p, a, cs, HandleArgsIteration(p, a, k, qs, un))

HandleArgsAfter(p, a, cs, r) ==
    IF r.returns
    THEN [unused |-> r.unused, err |-> r.err, calls |-> cs \o r.calls]
    ELSE HandleArgsFrom(p, a, r.i, r.quant, r.unused, cs \o r.calls)

\* The argument stage has not left a trace: no Quantifier call, no unused
\* token, no warning, the cursor unset.
ArgHandlerNotInvoked ==
    i = 0 /\ calls = <<>> /\ unused = <<>> /\ warned = <<>>

\* The result Parse has returned is the result of the ArgHandler run on
\* the tokens rest.
ArgHandlerRanOn(rest) ==
    /\ argHandler = "noArg" => (err = "nil" /\ warned = rest)
    /\ argHandler = "param" =>
          /\ i >= 1
          /\ [unused |-> unused, err |-> err, calls |-> calls]
                = HandleArgsFrom(params, rest, 1, <<>>, <<>>, <<>>)

\* C21: Parse runs the task selector before the ArgHandler and hands the
\* ArgHandler exactly the tokens the task selector left over; when the task
\* selector returns an error the ArgHandler is never invoked and that error
\* is the result of the parse.
C21_TaskStageFirst ==
    (taskHandler # "nil" /\ pc # "Parse")
        => IF handleTasks(taskHandler, args).err # "nil"
           THEN /\ pc = "returned"
                /\ err = handleTasks(taskHandler, args).err
                /\ ArgHandlerNotInvoked
           ELSE /\ restArgs = handleTasks(taskHandler, args).rest
                /\ (pc = "returned" /\ argHandler # "nil")
                      => ArgHandlerRanOn(handleTasks(taskHandler, args).rest)

C21_Witness ==
    /\ taskHandler = "single"
    /\ argHandler = "param"
    /\ args = <<"a,b", ":today", "x">>
    /\ pc = "returned"
    /\ err = "AmbiguousTask"
    /\ ArgHandlerNotInvoked

\* C27: no task name of the Command of a successful single or multi task
\* selection is the empty string.
C27_NoEmptyTaskName ==
    (taskHandler \in {"single", "multi"} /\ pc # "Parse" /\ pc # "panic")
        => \A k \in 1..Len(cmd.Tasks) : cmd.Tasks[k] # ""

-----------------------------------------------------------------------------
(* Properties of getQueryParams, checked under SpecQuery.                  *)

\* The argument list is the flag with the modifier m, in the one-token form
\* "flag=m" or in the two-token form "flag", "m".
FlagWith(flag, m) ==
    \/ qargs = <<flag \o "=" \o m>>
    \/ qargs = <<flag, m>>

\* The modifiers that FlagWith holds for: what follows "flag=", or the
\* second token.
ModifierOf(flag) ==
    IF Len(qargs) = 1 /\ HasPrefix(qargs[1], flag \o "=")
    THEN {From(qargs[1], Len(flag) + 2)}
    ELSE IF Len(qargs) = 2 /\ qargs[1] = flag THEN {qargs[2]}
    ELSE {}

\* A modifier of one fragment: no comma, and no second "=".
OneFragment(m) == ~Contains(m, ",") /\ ~Contains(m, "=")

\* C3: for every valid ISO date d, the one-token form and the two-token
\* form of the day flag both yield exactly one Day Quantity with value d and
\* no error; for a string that is not a valid date, resolution fails with
\* InvalidDate.
C3_DayFlagResolves ==
    qpc = "returned" =>
        \A d \in ModifierOf(PrmDate) :
            /\ isValidIsoDate(d)
                  => (qerr = "nil" /\ details = << <<QryDay, d>> >>)
            /\ (~isValidIsoDate(d) /\ OneFragment(d))
                  => qerr = "InvalidDate"

\* The Between Quantities of the fragments f, two at a time.
PairsOf(f) == [j \in 1..(Len(f) \div 2) |-> <<QryBetween, f[2 * j - 1], f[2 * j]>>]

AllValidDates(f) == \A k \in 1..Len(f) : isValidIsoDate(f[k])

BetweenResolves(f) ==
    AllValidDates(f) =>
        IF Len(f) % 2 = 0
        THEN qerr = "nil" /\ details = PairsOf(f)
        ELSE qerr = "UnbalancedModifiers"

\* C4: when the argument of the between flag splits on commas into 2*m
\* valid ISO dates, the result is exactly m Between Quantities, the j-th
\* holding the fragments 2j-1 and 2j; when the number of fragments is not a
\* multiple of 2, resolution fails with UnbalancedModifiers.
C4_BetweenChunks ==
    qpc = "returned" =>
        \A m \in ModifierOf(PrmBetween) : BetweenResolves(Split(m, ","))

\* C4 for the one-token form alone, where it holds.
BetweenChunksInline ==
    (qpc = "returned" /\ Len(qargs) = 1) =>
        \A m \in ModifierOf(PrmBetween) : BetweenResolves(Split(m, ","))

\* C5: an empty argument list resolves, without error, to exactly one Day
\* Quantity whose date is the date of the instant "now" handed in.
C5_DefaultIsToday ==
    (qpc = "returned" /\ Len(qargs) = 0)
        => (qerr = "nil" /\ details = << <<QryDay, FormatDate(now)>> >>)

\* The string has the shape of the pattern: a digit where the pattern has
\* "d", and the pattern's own character elsewhere.
HasShape(str, pattern) ==
    /\ Len(str) = Len(pattern)
    /\ \A k \in 1..Len(pattern) :
          IF Char(pattern, k) = "d" THEN Char(str, k) \in Digits
          ELSE Char(str, k) = Char(pattern, k)

\* The QueryParam has the number of values and the value format of its kind.
WellFormed(d) ==
    CASE d[1] = QryDay     -> Len(d) = 2 /\ HasShape(d[2], "dddd-dd-dd")
      [] d[1] = QryMonth   -> Len(d) = 2 /\ HasShape(d[2], "dddd-dd")
      [] d[1] = QryYear    -> Len(d) = 2 /\ HasShape(d[2], "dddd")
      [] d[1] = QryBetween -> /\ Len(d) = 3
                              /\ HasShape(d[2], "dddd-dd-dd")
                              /\ HasShape(d[3], "dddd-dd-dd")
      [] OTHER             -> FALSE

\* C19: every QueryParam a successful resolution emits has the arity and
\* the value format of its kind: Day one yyyy-mm-dd date, Month one yyyy-mm
\* value, Year one four-digit value, Between two yyyy-mm-dd dates, for every
\* accepted modifier.
C19_QuantityFormats ==
    \A k \in 1..Len(details) : WellFormed(details[k])

\* The date strings of the model that are valid yyyy-mm-dd dates.
ValidDateStrings ==
    {"1970-01-01", "2020-01-01", "2020-01-31", "2020-02-29", "2021-12-31"}

\* C22: since with a valid ISO date d yields exactly one Between Quantity
\* (d, date of now), and fails with InvalidDate and no Quantity when d is not
\* a valid yyyy-mm-dd date; ever yields the Quantity of since with
\* d = 1970-01-01 for the same now.
C22_SinceResolves ==
    qpc = "returned" =>
        /\ \A d \in DateStrings :
              qargs = <<PrmSince \o "=" \o d>> =>
                  IF d \in ValidDateStrings
                  THEN /\ qerr = "nil"
                       /\ details = <<<<QryBetween, d, FormatDate(now)>>>>
                  ELSE qerr = "InvalidDate" /\ details = <<>>
        /\ qargs = <<PrmEver>> =>
              /\ qerr = "nil"
              /\ details = <<<<QryBetween, "1970-01-01", FormatDate(now)>>>>

C22_Witness ==
    /\ qpc = "returned"
    /\ qargs = <<PrmSince \o "=1970-01-01">>
    /\ now = Date(2024, 2, 29)
    /\ details = <<<<QryBetween, "1970-01-01", "2024-02-29">>>>

\* C23: when a flag that takes modifiers is the last token and has no
\* "=value" part, resolution returns an error; it never reads past the end
\* of the token list.
C23_NoReadPastEnd == qpc # "panic"

\* The day number of a yyyy-mm-dd value.
DayOf(str) ==
    Date(DigitsVal(SubSeq(str, 1, 4)), DigitsVal(SubSeq(str, 6, 7)),
         DigitsVal(SubSeq(str, 9, 10)))

\* C24: every Between Quantity a resolution produces has its first date not
\* later than its second date.
C24_BetweenOrdered ==
    \A k \in 1..Len(details) :
        details[k][1] = QryBetween
            => DayOf(details[k][2]) <= DayOf(details[k][3])

\* The lists of 1..MaxFragments date fragments.
FragmentSeqs ==
    SeqsUpTo({"2020-01-01", "2020-01-31", "2020-02-30"}, MaxFragments) \ {<<>>}

\* The fragments before the first one that is not a valid date.
RECURSIVE ValidPrefix(_)
ValidPrefix(f) ==
    IF Len(f) = 0 \/ Head(f) \notin ValidDateStrings THEN <<>>
    ELSE <<Head(f)>> \o ValidPrefix(Tail(f))

\* The Quantity of one fragment d of the flag.
QuantityOf(flag, d) ==
    IF flag = PrmDate THEN <<QryDay, d>> ELSE <<QryBetween, d, FormatDate(now)>>

\* The flag with the fragments f has yielded one Quantity per fragment, in
\* order, up to the first fragment that does not parse, whose error is
\* returned.
OnePerFragment(flag, f) ==
    /\ details = [k \in 1..Len(ValidPrefix(f)) |-> QuantityOf(flag, f[k])]
    /\ qerr = IF Len(ValidPrefix(f)) = Len(f) THEN "nil" ELSE "InvalidDate"

\* C28: a flag that takes one modifier, given an argument that splits on
\* commas into m fragments, yields m Quantities, one per fragment in input
\* order, and stops at the first fragment that fails to parse, returning
\* that error.
C28_GenericChunking ==
    qpc = "returned" =>
        \A flag \in {PrmDate, PrmSince} : \A f \in FragmentSeqs :
            FlagWith(flag, JoinComma(f)) => OnePerFragment(flag, f)

\* C28 for the one-token form alone, where it holds.
GenericChunkingInline ==
    qpc = "returned" =>
        \A flag \in {PrmDate, PrmSince} : \A f \in FragmentSeqs :
            qargs = <<flag \o "=" \o JoinComma(f)>> => OnePerFragment(flag, f)

-----------------------------------------------------------------------------
(* Properties of the registry builders, checked under SpecRegistry.        *)

\* Two Params of the list share their flag name.
SharedName(l) ==
    \E j, k \in 1..Len(l) : j # k /\ l[j].Name = l[k].Name

\* C18: building a Param registry panics if and only if two of the Params
\* share a flag name; for Params with pairwise distinct names it completes,
\* and the registry maps every registered name to its Param.
C18_RegistryBuilt ==
    rpc \in {"returned", "panic"}
        => /\ rpc = "panic" <=> SharedName(paramList)
           /\ rpc = "returned" =>
                 \A k \in 1..Len(paramList) :
                    /\ HasEntry(pmap, paramList[k].Name)
                    /\ pmap.entries[paramList[k].Name] = paramList[k]

-----------------------------------------------------------------------------
(* Properties of ensureServerIsRunning, checked under SpecClient.          *)

\* C25: in every interleaving of the polling goroutine and the waiting
\* select, once the timeout branch has closed the notification channel the
\* goroutine never sends on that channel.
C25_NoSendOnClosed ==
    notifyChan = "closed" => gpc \notin {"send", "panic"}

-----------------------------------------------------------------------------
(* Properties of the server main loop, checked under SpecServer.           *)

\* C26: in every interleaving of waitForConnection with the main loop
\* leaving on a signal or a shutdown request, waitForConnection never
\* sends, and is never left blocked sending, a connection on connectChan
\* after main has closed that channel.
C26_NoSendAfterClose ==
    connectChan = "closed" => wpc \notin {"send", "panic"}

-----------------------------------------------------------------------------
(* Properties of the date functions, checked under SpecDates.              *)

\* The yyyy-mm of the month with the index idx = 12 * year + (month - 1).
MonthOfIndex(idx) == Pad4(idx \div 12) \o "-" \o Pad2((idx % 12) + 1)

MonthIndex(c) == 12 * c.year + (c.month - 1)

\* C6: monthsAgo(now, n) is the Month Quantity of the calendar month exactly
\* n months before the month of now, for every day of the month of now.
C6_MonthsAgoExact ==
    called[1] = "monthsAgo"
        => res = <<QryMonth, MonthOfIndex(MonthIndex(Civil(now)) - called[2])>>

C6_Witness ==
    /\ called = <<"monthsAgo", 1>>
    /\ now = Date(2021, 5, 31)
    /\ res = <<QryMonth, "2021-04">>

\* The latest Monday that is not after t.
MondayOf(t) == CHOOSE m \in (t - 6)..t : Weekday(m) = 1

\* The week that starts on the day start, cut off at t.
WeekUpTo(start, t) ==
    <<QryBetween, FormatDate(start),
      FormatDate(IF start + 6 <= t THEN start + 6 ELSE t)>>

\* C7: weeksAgo(now, n) is the Between Quantity from the Monday 7*n days
\* before the Monday of the week of now to the earlier of that Monday plus 6
\* days and now.
C7_WeeksAgoRange ==
    called[1] = "weeksAgo"
        => res = WeekUpTo(MondayOf(now) - 7 * called[2], now)

C7_Witness ==
    /\ called = <<"weeksAgo", 0>>
    /\ now = Date(2023, 6, 14)
    /\ Weekday(now) = 3
    /\ res = <<QryBetween, "2023-06-12", "2023-06-14">>

\* C8: yearsAgo(now, n) is the Year Quantity of the year of now minus n, for
\* every day including the 29th of February; the flags this-year and
\* last-year are the cases n = 0 and n = 1 and take no modifier.
C8_YearsAgoExact ==
    /\ called[1] = "yearsAgo"
          => res = <<QryYear, Pad4(Civil(now).year - called[2])>>
    /\ called[1] = PrmThisYear => res = <<QryYear, Pad4(Civil(now).year)>>
    /\ called[1] = PrmLastYear => res = <<QryYear, Pad4(Civil(now).year - 1)>>

C8_Witness ==
    /\ called = <<"yearsAgo", 1>>
    /\ now = Date(2020, 2, 29)
    /\ res = <<QryYear, "2019">>

=============================================================================
